---- MODULE Spec2Model ----
(***************************************************************************)
(* Rideshare bot: the store operations of src/database/db.py and the       *)
(* Telegram handlers of src/handlers/rider.py and src/handlers/driver.py   *)
(* that call them.                                                         *)
(*                                                                         *)
(* Every store operation is a coroutine; another coroutine can run at each *)
(* of its awaits.  An operation is therefore a sequence of atomic steps,   *)
(* one per statement sent to the database: a SELECT reads the committed    *)
(* rows, commit() writes the attributes the coroutine changed.  Where the  *)
(* database honours with_for_update(), the selected row stays locked until *)
(* the transaction ends and a write to it waits; SQLite, the default of    *)
(* DATABASE_URL, ignores the clause.  Both are behaviours of the program.  *)
(*                                                                         *)
(* set_driver_availability, create_driver and create_ride are one step     *)
(* each: what they read cannot change what they write.  The driver row     *)
(* that update_ride_status frees is read at the commit.                    *)
(*                                                                         *)
(* The handlers are modelled by the store operations they await and by the *)
(* state of the ride-request conversation; the texts and keyboards they    *)
(* send are left out, except that a send outside a try block can raise and *)
(* end the handler.                                                        *)
(*                                                                         *)
(* Distances are in hundredths of a kilometre (calculate_distance rounds   *)
(* to 2 decimals); locations are points on a line.  Driver ratings are in  *)
(* hundredths of a star (update_driver_rating rounds to 2 decimals).       *)
(***************************************************************************)
EXTENDS Integers, Sequences, FiniteSets, TLC

REQUESTED == "REQUESTED"
ASSIGNED == "ASSIGNED"
ONGOING == "ONGOING"
COMPLETED == "COMPLETED"
CANCELLED == "CANCELLED"

\* ------------------------------------------------------------------ bounds
MaxRides == 2
MaxConcRides == 1
MaxHistory == 4
StoreMaxHistory == 3
Users == {1, 2, 3}
Sequential == {1}
Concurrent == {1, 2}
DriverLocs == {0}
PickupLocs == {0, 1001}
Dists == {0, 1000}
DriverIds == {2, 3}
RiderIds == {1, 2}
StoreRiders == {1}
Racers == {1, 2, 3}
RaceRides == 3
RaceDists == {1000}
StoreStatuses == {ONGOING, COMPLETED, CANCELLED}
MaxClock == 2
MaxTotalRides == 3
RatedMaxHistory == 5
Stars == {2, 4, 5}
RatedDrivers == {2, 3}
MatchLocs == {0, 400, 1000, 1001}
MatchPickups == {0, 500}
RegistryLocs == {0, 400}

\* ---------------------------------------------------------------- constants
MAX_SEARCH_DISTANCE_KM == 1000
NoDriver == 0
DefaultRating == 500
NoRating == 0

RideStatus == {REQUESTED, ASSIGNED, ONGOING, COMPLETED, CANCELLED}
ActiveStatuses == {REQUESTED, ASSIGNED, ONGOING}
TerminalStatuses == {COMPLETED, CANCELLED}

VARIABLES
  drivers,    \* table drivers: user id -> row
  rides,      \* table rides: sequence of rows, the ride id is the index
  history,    \* table ride_history: ride id -> statuses in insertion order
  conv,       \* ConversationHandler state of the ride request, per user
  procs,      \* the coroutines in flight
  ret,        \* what a store operation called directly, or assign_driver_to_ride or
              \* update_ride_status awaited by a handler, returned in the last step
  for_update, \* whether the database named by DATABASE_URL honours with_for_update():
              \* PostgreSQL locks the row, SQLite (the default) ignores the clause
  now,        \* the clock datetime.utcnow() reads
  stamps,     \* ride id -> the timestamps of the ride's history entries
  successes   \* per ride, how many assign_driver_to_ride calls returned True (2: two or more)

vars == <<drivers, rides, history, stamps, conv, procs, ret, successes, for_update, now>>
db == <<drivers, rides, history, stamps>>

\* ------------------------------------------------------------------- rows
Driver(loc) ==
  [exists |-> TRUE, available |-> FALSE, loc |-> loc,
   rating |-> DefaultRating, total_rides |-> 0]
AbsentDriver ==
  [exists |-> FALSE, available |-> FALSE, loc |-> 0,
   rating |-> DefaultRating, total_rides |-> 0]
Ride(rider_id) ==
  [rider_id |-> rider_id, driver_id |-> NoDriver, status |-> REQUESTED,
   distance |-> -1, rating |-> NoRating, completed_at |-> FALSE]

RideIds == 1..MaxRides
\* The coroutine slots: one when the Application processes one update at a
\* time (its default), two when requests run concurrently
Procs == DOMAIN procs
ExistingRides == 1..Len(rides)

Idle ==
  [pc |-> "idle", h |-> "none", user |-> 0, ride |-> 0, drv |-> 0, dist |-> 0,
   st |-> "none", ld |-> 0, ls |-> "none", pickup |-> 0, res |-> "none",
   stars |-> 0, lr |-> 0, la |-> 0, ln |-> 0, list |-> <<>>]
NoRet == [op |-> "none", val |-> FALSE]
Returned(op, val) == [op |-> op, val |-> val]

\* ------------------------------------------------------------ pure helpers
\* calculate_distance on the line of locations, in hundredths of a kilometre
calculate_distance(a, b) == IF a >= b THEN a - b ELSE b - a

\* The FOR UPDATE lock of assign_driver_to_ride: held on the driver row from the
\* locking SELECT to the end of the transaction.
LockHolders(d) ==
  {q \in Procs : procs[q].pc \in {"assign_ride", "assign_commit"} /\ procs[q].drv = d}
Locked(d, p) == for_update /\ LockHolders(d) \ {p} # {}

\* get_active_ride_for_user: the rows the query matches
ActiveRidesOf(u) ==
  {r \in ExistingRides :
     /\ rides[r].rider_id = u \/ rides[r].driver_id = u
     /\ rides[r].status \in ActiveStatuses}

Init ==
  /\ drivers = [u \in Users |-> AbsentDriver]
  /\ rides = <<>>
  /\ history = <<>>
  /\ stamps = <<>>
  /\ now = 0
  /\ conv = [u \in Users |-> "END"]
  /\ procs = [p \in Sequential |-> Idle]
  /\ for_update = FALSE
  /\ ret = NoRet
  /\ successes = <<>>

InitConc ==
  /\ drivers = [u \in Users |-> AbsentDriver]
  /\ rides = <<>>
  /\ history = <<>>
  /\ stamps = <<>>
  /\ now = 0
  /\ conv = [u \in Users |-> "END"]
  /\ procs = [p \in Concurrent |-> Idle]
  /\ for_update \in BOOLEAN
  /\ ret = NoRet
  /\ successes = <<>>

\* A handler starts in a free slot
Free == \E p \in Procs : procs[p].pc = "idle"
RideCap == IF Cardinality(Procs) > 1 THEN MaxConcRides ELSE MaxRides

\* --------------------------------------------------------- store operations
\* The handler that awaited a store operation goes on when it returns.  A reply
\* to the user that is not inside a try block can raise, which ends the handler
\* without its remaining statements; the conversation state changes only when
\* the handler returns.
Resume(p, me, op, val) ==
  CASE me.h = "complete_ride_callback" /\ op = "update_ride_status" ->
         /\ UNCHANGED conv
         /\ \/ procs' = [procs EXCEPT ![p] = [me EXCEPT !.pc = "set_driver_availability"]]
            \/ procs' = [procs EXCEPT ![p] = Idle]
    [] me.h = "handle_location" ->
         /\ procs' = [procs EXCEPT ![p] = Idle]
         /\ \/ conv' = [conv EXCEPT ![me.user] = "END"]
            \/ UNCHANGED conv
    [] me.h = "race" ->
         /\ procs' = [procs EXCEPT ![p] = [me EXCEPT !.pc = "done", !.res = IF val THEN "True" ELSE "False"]]
         /\ UNCHANGED conv
    [] OTHER ->
         /\ procs' = [procs EXCEPT ![p] = Idle]
         /\ UNCHANGED conv

\* (a variant that inserts the entry twice)
AppendHistoryTwice(h, r, s) == [h EXCEPT ![r] = Append(Append(@, s), s)]
AppendHistory(h, r, s) == [h EXCEPT ![r] = Append(@, s)]

\* Coroutines that will still append a history entry for ride r
Appenders(r) ==
  {q \in Procs : procs[q].ride = r
                 /\ procs[q].pc \in {"find", "assign_lock", "assign_ride", "assign_commit",
                                     "urs_read", "urs_commit"}}
Room(r, cap) == r \in ExistingRides => Len(history[r]) + Cardinality(Appenders(r)) < cap

\* (a variant that registers the driver anew on every call)
create_driver_anew(ds, u, loc) == [ds EXCEPT ![u] = Driver(loc)]

\* create_driver: insert with available = False, or update the profile fields
create_driver(ds, u, loc) ==
  IF ds[u].exists THEN [ds EXCEPT ![u].loc = loc]
  ELSE [ds EXCEPT ![u] = Driver(loc)]

\* (a variant that commits the ride without its history entry)
create_ride_without_entry(u) ==
  /\ rides' = Append(rides, Ride(u))
  /\ history' = Append(history, <<>>)
  /\ stamps' = Append(stamps, <<>>)
  /\ successes' = Append(successes, 0)
  /\ UNCHANGED <<for_update, now>>

\* create_ride: the ride and its first history entry, in one commit
create_ride(u) ==
  /\ rides' = Append(rides, Ride(u))
  /\ history' = Append(history, <<REQUESTED>>)
  /\ stamps' = Append(stamps, <<now>>)
  /\ successes' = Append(successes, 0)
  /\ UNCHANGED <<for_update, now>>

\* set_driver_availability: the write
set_available(ds, u, v) == [ds EXCEPT ![u].available = v]

\* (a variant that leaves a driver with an active ride as it is)
set_driver_availability_when_idle(p, u, v) ==
  /\ IF drivers[u].exists /\ ActiveRidesOf(u) = {}
     THEN /\ ~Locked(u, p)
          /\ drivers' = set_available(drivers, u, v)
     ELSE UNCHANGED drivers

\* set_driver_availability(u, v) as one step: the SELECT finds the driver or
\* not, and a driver once found never disappears before the commit
set_driver_availability(p, u, v) ==
  /\ IF drivers[u].exists
     THEN /\ ~Locked(u, p)
          /\ drivers' = set_available(drivers, u, v)
     ELSE UNCHANGED drivers

\* assign_driver_to_ride, the locking SELECT of the driver row
\* (a variant that accepts a driver who is not available)
DriverIsThere(d) == drivers[d].exists
DriverIsAvailable(d) == drivers[d].exists /\ drivers[d].available

AssignBegin(p, me) ==
  /\ UNCHANGED <<db, successes, for_update, now>>
  /\ IF DriverIsAvailable(me.drv)
     THEN /\ ~Locked(me.drv, p)
          /\ procs' = [procs EXCEPT ![p] = [me EXCEPT !.pc = "assign_ride"]]
          /\ ret' = NoRet
          /\ UNCHANGED conv
     ELSE /\ ret' = Returned("assign_driver_to_ride", FALSE)
          /\ Resume(p, me, "assign_driver_to_ride", ret'.val)

AssignLock(p) == procs[p].pc = "assign_lock" /\ AssignBegin(p, procs[p])

\* assign_driver_to_ride, the SELECT of the ride
\* (a variant that accepts a ride in any status)
RideIsThere(r) == r \in ExistingRides
RideIsRequested(r) == r \in ExistingRides /\ rides[r].status = REQUESTED

AssignRide(p) ==
  LET me == procs[p] IN
  /\ me.pc = "assign_ride"
  /\ UNCHANGED <<db, successes, for_update, now>>
  /\ IF RideIsRequested(me.ride)
     THEN /\ procs' = [procs EXCEPT ![p].pc = "assign_commit"]
          /\ ret' = NoRet
          /\ UNCHANGED conv
     ELSE /\ ret' = Returned("assign_driver_to_ride", FALSE)
          /\ Resume(p, me, "assign_driver_to_ride", ret'.val)

\* assign_driver_to_ride, the writes, committed at the end of the
\* session.begin() block
\* (variants: one that leaves the driver_id as it was, one that leaves the
\* distance as it was)
AssignedRideWithoutDriver(row, d, dist) ==
  [row EXCEPT !.distance = dist, !.status = ASSIGNED]
AssignedRideKeepingDistance(row, d, dist) ==
  [row EXCEPT !.driver_id = d, !.status = ASSIGNED]
AssignedRide(row, d, dist) ==
  [row EXCEPT !.driver_id = d, !.distance = dist, !.status = ASSIGNED]

AssignedDriver(ds, d) == set_available(ds, d, FALSE)

AssignCommit(p) ==
  LET me == procs[p] IN
  /\ me.pc = "assign_commit"
  /\ rides' = [rides EXCEPT ![me.ride] = AssignedRide(@, me.drv, me.dist)]
  /\ drivers' = AssignedDriver(drivers, me.drv)
  /\ history' = AppendHistory(history, me.ride, ASSIGNED)
  /\ stamps' = AppendHistory(stamps, me.ride, now)
  /\ successes' = [successes EXCEPT ![me.ride] = IF @ < 2 THEN @ + 1 ELSE @]
  /\ UNCHANGED <<for_update, now>>
  /\ ret' = Returned("assign_driver_to_ride", TRUE)
  /\ Resume(p, me, "assign_driver_to_ride", ret'.val)

\* update_ride_status, the SELECT of the ride
UrsBegin(p, me) ==
  /\ UNCHANGED <<db, successes, for_update, now>>
  /\ IF me.ride \in ExistingRides
     THEN /\ procs' = [procs EXCEPT ![p] =
                         [me EXCEPT !.pc = "urs_commit", !.ld = rides[me.ride].driver_id,
                                    !.ls = rides[me.ride].status]]
          /\ ret' = NoRet
          /\ UNCHANGED conv
     ELSE /\ ret' = Returned("update_ride_status", FALSE)
          /\ Resume(p, me, "update_ride_status", ret'.val)

UrsRead(p) == procs[p].pc = "urs_read" /\ UrsBegin(p, procs[p])

\* update_ride_status, the writes and the commit.  ld and ls are the driver_id
\* and the status the SELECT loaded.  The commit writes the attributes whose
\* value differs from the loaded one; completed_at, a new timestamp, always
\* does.  The driver row is read and written at the commit.
\* (variants: one that frees the driver on every status, one that frees no
\* driver)
FreesDriverOnAnyStatus(st, ld) == ld # NoDriver /\ drivers[ld].exists
FreesNoDriver(st, ld) == FALSE
FreesDriver(st, ld) == st \in TerminalStatuses /\ ld # NoDriver /\ drivers[ld].exists

UpdatedRide(row, st, ls) ==
  [row EXCEPT !.status = IF st # ls THEN st ELSE @,
              !.completed_at = IF st \in TerminalStatuses THEN TRUE ELSE @]

UrsCommit(p) ==
  LET me == procs[p] IN
  /\ me.pc = "urs_commit"
  /\ rides' = [rides EXCEPT ![me.ride] = UpdatedRide(@, me.st, me.ls)]
  /\ IF FreesDriver(me.st, me.ld)
     THEN /\ ~Locked(me.ld, p)
          /\ drivers' = set_available(drivers, me.ld, TRUE)
     ELSE UNCHANGED drivers
  /\ history' = AppendHistory(history, me.ride, me.st)
  /\ stamps' = AppendHistory(stamps, me.ride, now)
  /\ UNCHANGED <<successes, for_update, now>>
  /\ ret' = Returned("update_ride_status", TRUE)
  /\ Resume(p, me, "update_ride_status", ret'.val)

\* ------------------------------------------------ the store, called directly
\* A call and the first SELECT of the operation are one step: nothing happens
\* between them.
Frame(h, pc, u, r, d, dist, st) ==
  [Idle EXCEPT !.pc = pc, !.h = h, !.user = u, !.ride = r, !.drv = d,
               !.dist = dist, !.st = st]

CallAssign(p) ==
  \E r \in RideIds, d \in DriverIds, dist \in Dists :
    /\ procs[p].pc = "idle"
    /\ Room(r, StoreMaxHistory)
    /\ AssignBegin(p, Frame("store", "assign_lock", 0, r, d, dist, "none"))

CallUpdateRideStatus(p) ==
  \E r \in RideIds, st \in StoreStatuses :
    /\ procs[p].pc = "idle"
    /\ Room(r, StoreMaxHistory)
    /\ UrsBegin(p, Frame("store", "urs_read", 0, r, 0, 0, st))

CallCreateRide ==
  /\ Len(rides) < MaxRides
  /\ \E u \in StoreRiders : create_ride(u)
  /\ ret' = Returned("create_ride", TRUE)
  /\ UNCHANGED <<drivers, conv, procs>>

CreateDriverCall(u, loc) ==
  /\ ~Locked(u, 0)
  /\ drivers' = create_driver(drivers, u, loc)
  /\ ret' = Returned("create_driver", TRUE)
  /\ UNCHANGED <<rides, history, stamps, conv, procs, successes, for_update, now>>

CallCreateDriver == \E u \in DriverIds, loc \in DriverLocs : CreateDriverCall(u, loc)

SetAvailabilityCall(u, v) ==
  /\ set_driver_availability(0, u, v)
  /\ ret' = Returned("set_driver_availability", drivers[u].exists)
  /\ UNCHANGED <<rides, history, stamps, conv, procs, successes, for_update, now>>

CallSetAvailability == \E u \in DriverIds, v \in BOOLEAN : SetAvailabilityCall(u, v)

StoreNext ==
  \/ \E p \in Procs : CallAssign(p)
  \/ \E p \in Procs : CallUpdateRideStatus(p)
  \/ CallCreateRide
  \/ CallCreateDriver
  \/ CallSetAvailability
  \/ \E p \in Procs : AssignRide(p)
  \/ \E p \in Procs : AssignCommit(p)
  \/ \E p \in Procs : UrsCommit(p)

SpecStore == InitConc /\ [][StoreNext]_vars

\* ------------------------------------------------------------- the matching
\* get_available_drivers returns the available drivers in an order the store
\* chooses
Orderings(S) ==
  {f \in [1..Cardinality(S) -> S] : \A i, j \in 1..Cardinality(S) : f[i] = f[j] => i = j}

AvailableDrivers == {d \in Users : drivers[d].exists /\ drivers[d].available}

get_available_drivers == Orderings(AvailableDrivers)

\* find_nearest_driver on the list the store returned: the drivers within the
\* radius with their distances, sorted by distance with a stable sort
\* (a variant that excludes the boundary)
StrictlyWithinRadius(dist) == dist < MAX_SEARCH_DISTANCE_KM
WithinRadius(dist) == dist <= MAX_SEARCH_DISTANCE_KM

driver_distances(list, pickup) ==
  LET dd == [i \in 1..Len(list) |->
               [driver |-> list[i],
                distance |-> calculate_distance(pickup, drivers[list[i]].loc)]]
  IN SelectSeq(dd, LAMBDA x : WithinRadius(x.distance))

\* (variants: one that takes the first driver of the list, one that takes the
\* last of the nearest drivers)
FirstInList(dd) == dd[1]
LastNearest(dd) ==
  dd[CHOOSE i \in 1..Len(dd) :
       /\ \A j \in 1..Len(dd) : dd[i].distance <= dd[j].distance
       /\ \A j \in (i + 1)..Len(dd) : dd[j].distance > dd[i].distance]
Nearest(dd) ==
  dd[CHOOSE i \in 1..Len(dd) :
       /\ \A j \in 1..Len(dd) : dd[i].distance <= dd[j].distance
       /\ \A j \in 1..(i - 1) : dd[j].distance > dd[i].distance]

NoResult == [driver |-> NoDriver, distance |-> 0]

find_nearest_driver(list, pickup) ==
  IF driver_distances(list, pickup) = <<>> THEN NoResult
  ELSE Nearest(driver_distances(list, pickup))

\* ------------------------------------------------------------- the handlers
\* request_ride_start: the user is asked for a location unless the active-ride
\* query finds a ride (or raises on more than one)
request_ride_start(u) ==
  /\ Free
  /\ ActiveRidesOf(u) = {}
  /\ conv' = [conv EXCEPT ![u] = "WAITING_LOCATION"]
  /\ ret' = NoRet
  /\ UNCHANGED <<db, procs, successes, for_update, now>>

\* cancel_request: the conversation ends
cancel_request(u) ==
  /\ Free
  /\ conv[u] = "WAITING_LOCATION"
  /\ conv' = [conv EXCEPT ![u] = "END"]
  /\ ret' = NoRet
  /\ UNCHANGED <<db, procs, successes, for_update, now>>

\* handle_location, up to the reply that follows create_ride
handle_location(p, u, pickup) ==
  /\ conv[u] = "WAITING_LOCATION"
  /\ procs[p].pc = "idle"
  /\ Len(rides) < RideCap
  /\ create_ride(u)
  /\ ret' = NoRet
  /\ \/ procs' = [procs EXCEPT ![p] =
                    [Frame("handle_location", "find", u, Len(rides) + 1, 0, 0, "none")
                       EXCEPT !.pickup = pickup]]
     \/ UNCHANGED procs
  /\ UNCHANGED <<drivers, conv>>

\* handle_location, find_nearest_driver and what follows it up to the next
\* store operation
\* the reply "No Drivers Available" can raise before cancel_ride is awaited
Found(p, me, list) ==
  LET result == find_nearest_driver(list, me.pickup) IN
  IF result = NoResult
  THEN \/ procs' = [procs EXCEPT ![p] = [me EXCEPT !.pc = "urs_read", !.st = CANCELLED]]
       \/ procs' = [procs EXCEPT ![p] = Idle]
  ELSE procs' = [procs EXCEPT ![p] =
                   [me EXCEPT !.pc = "assign_lock", !.drv = result.driver,
                              !.dist = result.distance]]

LocFind(p) ==
  LET me == procs[p] IN
  /\ me.pc = "find"
  /\ \E list \in get_available_drivers : Found(p, me, list)
  /\ ret' = NoRet
  /\ UNCHANGED <<db, conv, successes, for_update, now>>

\* cancel_ride_button, up to cancel_ride
cancel_ride_button(p, u) ==
  /\ procs[p].pc = "idle"
  /\ \E r \in ActiveRidesOf(u) :
       /\ ActiveRidesOf(u) = {r}
       /\ rides[r].status # ONGOING
       /\ Room(r, MaxHistory)
       /\ procs' = [procs EXCEPT ![p] =
                      Frame("cancel_ride_button", "urs_read", 0, r, 0, 0, CANCELLED)]
  /\ ret' = NoRet
  /\ UNCHANGED <<db, conv, successes, for_update, now>>

\* cancel_ride_callback, up to cancel_ride
cancel_ride_callback_within(p, u, r, cap) ==
  /\ procs[p].pc = "idle"
  /\ r \in ExistingRides
  /\ rides[r].rider_id = u
  /\ rides[r].status # ONGOING
  /\ Room(r, cap)
  /\ procs' = [procs EXCEPT ![p] =
                 Frame("cancel_ride_callback", "urs_read", 0, r, 0, 0, CANCELLED)]
  /\ ret' = NoRet
  /\ UNCHANGED <<db, conv, successes, for_update, now>>

cancel_ride_callback(p, u, r) == cancel_ride_callback_within(p, u, r, MaxHistory)

\* accept_ride_callback, up to update_ride_status
accept_ride_callback(p, u, r) ==
  /\ procs[p].pc = "idle"
  /\ r \in ExistingRides
  /\ rides[r].status = ASSIGNED
  /\ Room(r, MaxHistory)
  /\ procs' = [procs EXCEPT ![p] =
                 Frame("accept_ride_callback", "urs_read", 0, r, 0, 0, ONGOING)]
  /\ ret' = NoRet
  /\ UNCHANGED <<db, conv, successes, for_update, now>>

\* decline_ride_callback
decline_ride_callback(u) ==
  /\ Free
  /\ set_driver_availability(0, u, TRUE)
  /\ ret' = NoRet
  /\ UNCHANGED <<rides, history, stamps, conv, procs, successes, for_update, now>>

\* complete_ride_callback, up to update_ride_status
complete_ride_callback(p, u, r) ==
  /\ procs[p].pc = "idle"
  /\ r \in ExistingRides
  /\ rides[r].driver_id = u
  /\ Room(r, MaxHistory)
  /\ procs' = [procs EXCEPT ![p] =
                 Frame("complete_ride_callback", "urs_read", u, r, 0, 0, COMPLETED)]
  /\ ret' = NoRet
  /\ UNCHANGED <<db, conv, successes, for_update, now>>

\* go_available, up to set_driver_availability
go_available(p, u) ==
  /\ procs[p].pc = "idle"
  /\ drivers[u].exists
  /\ ActiveRidesOf(u) = {}
  /\ procs' = [procs EXCEPT ![p] =
                 Frame("go_available", "set_driver_availability", u, 0, 0, 0, "none")]
  /\ ret' = NoRet
  /\ UNCHANGED <<db, conv, successes, for_update, now>>

\* go_offline
go_offline(u) ==
  /\ Free
  /\ set_driver_availability(0, u, FALSE)
  /\ ret' = NoRet
  /\ UNCHANGED <<rides, history, stamps, conv, procs, successes, for_update, now>>

\* driver_start and driver_vehicle_received: a user who is no driver yet
\* registers, at a random location
driver_vehicle_received(u, loc) ==
  /\ Free
  /\ ~drivers[u].exists
  /\ drivers' = create_driver(drivers, u, loc)
  /\ ret' = NoRet
  /\ UNCHANGED <<rides, history, stamps, conv, procs, successes, for_update, now>>

\* set_driver_availability(user, True) awaited by complete_ride_callback and
\* go_available
SetAvailable(p) ==
  LET me == procs[p] IN
  /\ me.pc = "set_driver_availability"
  /\ set_driver_availability(p, me.user, TRUE)
  /\ ret' = NoRet
  /\ UNCHANGED <<rides, history, stamps, successes, for_update, now>>
  /\ Resume(p, me, "set_driver_availability", TRUE)

Next ==
  \/ \E u \in RiderIds : request_ride_start(u)
  \/ \E u \in RiderIds : cancel_request(u)
  \/ \E p \in Procs, u \in RiderIds, pickup \in PickupLocs : handle_location(p, u, pickup)
  \/ \E p \in Procs : LocFind(p)
  \/ \E p \in Procs, u \in Users : cancel_ride_button(p, u)
  \/ \E p \in Procs, u \in Users, r \in RideIds : cancel_ride_callback(p, u, r)
  \/ \E p \in Procs, u \in Users, r \in RideIds : accept_ride_callback(p, u, r)
  \/ \E u \in Users : decline_ride_callback(u)
  \/ \E p \in Procs, u \in Users, r \in RideIds : complete_ride_callback(p, u, r)
  \/ \E p \in Procs, u \in Users : go_available(p, u)
  \/ \E u \in Users : go_offline(u)
  \/ \E u \in DriverIds, loc \in DriverLocs : driver_vehicle_received(u, loc)
  \/ \E p \in Procs : AssignLock(p)
  \/ \E p \in Procs : AssignRide(p)
  \/ \E p \in Procs : AssignCommit(p)
  \/ \E p \in Procs : UrsRead(p)
  \/ \E p \in Procs : UrsCommit(p)
  \/ \E p \in Procs : SetAvailable(p)

\* Updates processed one at a time
Spec == Init /\ [][Next]_vars

\* Requests running concurrently
SpecConc == InitConc /\ [][Next]_vars

\* --------------------------------------------------- concurrent assignments
\* Concurrent callers of assign_driver_to_ride, each with its own arguments,
\* on registered available drivers and REQUESTED rides.  A caller keeps its
\* arguments and the value returned to it; an idle slot makes no call.
InitRace ==
  /\ drivers = [u \in Users |->
                  IF u \in DriverIds THEN [Driver(0) EXCEPT !.available = TRUE]
                  ELSE AbsentDriver]
  /\ rides = [r \in 1..RaceRides |-> Ride(1)]
  /\ history = [r \in 1..RaceRides |-> <<REQUESTED>>]
  /\ stamps = [r \in 1..RaceRides |-> <<0>>]
  /\ now = 0
  /\ successes = [r \in 1..RaceRides |-> 0]
  /\ conv = [u \in Users |-> "END"]
  /\ procs \in [Racers ->
                  {Idle} \cup
                  {Frame("race", "assign_lock", 0, r, d, dist, "none") :
                     r \in 1..RaceRides, d \in DriverIds, dist \in RaceDists}]
  /\ for_update \in BOOLEAN
  /\ ret = NoRet

NextRace ==
  \/ \E p \in Procs : AssignLock(p)
  \/ \E p \in Procs : AssignRide(p)
  \/ \E p \in Procs : AssignCommit(p)

SpecRace == InitRace /\ [][NextRace]_vars

\* ------------------------------------------------------- the ride's history
\* The clock of datetime.utcnow, the default of RideHistory.timestamp: it is
\* read when an entry is inserted, and two entries inserted before it advances
\* get the same timestamp.
Tick ==
  /\ now < MaxClock
  /\ now' = now + 1
  /\ UNCHANGED <<db, conv, procs, ret, successes, for_update>>

\* get_ride_history: the entries of the ride, ORDER BY timestamp.  The query
\* names no second key, so the database returns entries of equal timestamp in
\* an order of its own choice.
OrderedByTimestamp(r, f) == \A i, j \in DOMAIN f : i < j => stamps[r][f[i]] <= stamps[r][f[j]]

get_ride_history(r) ==
  IF r \in ExistingRides
  THEN {[i \in DOMAIN f |-> history[r][f[i]]] :
          f \in {g \in Orderings(DOMAIN history[r]) : OrderedByTimestamp(r, g)}}
  ELSE {<<>>}

Listed(r, entries) == [op |-> "get_ride_history", val |-> [ride |-> r, entries |-> entries]]

CallGetRideHistory ==
  /\ \E r \in RideIds : \E entries \in get_ride_history(r) : ret' = Listed(r, entries)
  /\ UNCHANGED <<db, conv, procs, successes, for_update, now>>

HistoryNext ==
  \/ CallCreateRide
  \/ \E p \in Procs : CallUpdateRideStatus(p)
  \/ \E p \in Procs : UrsCommit(p)
  \/ Tick
  \/ CallGetRideHistory

\* No operation of the history takes a row lock
InitHistory == InitConc /\ for_update = FALSE

SpecHistory == InitHistory /\ [][HistoryNext]_vars

\* ------------------------------------------------------------- the ratings
\* round(new_avg, 2) of update_driver_rating, in hundredths: the hundredth
\* nearest to (a * n + r) / (n + 1).  When the quotient lies halfway between
\* two hundredths, the binary float nearest to it decides which one it is.
RoundedAverages(a, n, r) ==
  LET num == a * n + 100 * r
      den == n + 1
      q == num \div den
      rem == num % den
  IN  IF 2 * rem < den THEN {q}
      ELSE IF 2 * rem > den THEN {q + 1}
      ELSE {q, q + 1}

\* add_ride_rating returns True, or update_driver_rating called directly
\* returns (None)
UdrReturn(p, me) ==
  /\ ret' = IF me.h \in {"add_ride_rating", "rate_ride_callback"}
            THEN Returned("add_ride_rating", TRUE)
            ELSE Returned("update_driver_rating", FALSE)
  /\ Resume(p, me, ret'.op, ret'.val)

\* update_driver_rating, the SELECT of the driver
UdrBegin(p, me) ==
  /\ UNCHANGED <<db, successes, for_update, now>>
  /\ IF drivers[me.drv].exists
     THEN /\ procs' = [procs EXCEPT ![p] =
                         [me EXCEPT !.pc = "udr_commit", !.la = drivers[me.drv].rating,
                                    !.ln = drivers[me.drv].total_rides]]
          /\ ret' = NoRet
          /\ UNCHANGED conv
     ELSE UdrReturn(p, me)

UdrRead(p) == procs[p].pc = "udr_read" /\ UdrBegin(p, procs[p])

\* update_driver_rating, the writes and the commit: la and ln are the rating
\* and the total_rides the SELECT loaded
\* (a variant that keeps the count of rides)
RatedDriverKeepingCount(row, avg, la, ln) ==
  [row EXCEPT !.rating = IF avg # la THEN avg ELSE @]
RatedDriver(row, avg, la, ln) ==
  [row EXCEPT !.rating = IF avg # la THEN avg ELSE @, !.total_rides = ln + 1]

UdrCommit(p) ==
  LET me == procs[p] IN
  /\ me.pc = "udr_commit"
  /\ ~Locked(me.drv, p)
  /\ \E avg \in RoundedAverages(me.la, me.ln, me.stars) :
       drivers' = [drivers EXCEPT ![me.drv] = RatedDriver(@, avg, me.la, me.ln)]
  /\ UNCHANGED <<rides, history, stamps, successes, for_update, now>>
  /\ UdrReturn(p, me)

\* add_ride_rating, the SELECT of the ride
\* (a variant that accepts a finished ride)
RideIsFinished(r) == r \in ExistingRides /\ rides[r].status \in TerminalStatuses
RideIsCompleted(r) == r \in ExistingRides /\ rides[r].status = COMPLETED

ArrBegin(p, me) ==
  /\ UNCHANGED <<db, successes, for_update, now>>
  /\ IF RideIsCompleted(me.ride)
     THEN /\ procs' = [procs EXCEPT ![p] =
                         [me EXCEPT !.pc = "arr_commit", !.ld = rides[me.ride].driver_id,
                                    !.lr = rides[me.ride].rating]]
          /\ ret' = NoRet
          /\ UNCHANGED conv
     ELSE /\ ret' = Returned("add_ride_rating", FALSE)
          /\ Resume(p, me, "add_ride_rating", ret'.val)

\* add_ride_rating, the write of the rating and its commit, then the call of
\* update_driver_rating when the ride was loaded with a driver_id
ArrCommit(p) ==
  LET me == procs[p] IN
  /\ me.pc = "arr_commit"
  /\ rides' = [rides EXCEPT ![me.ride].rating = IF me.stars # me.lr THEN me.stars ELSE @]
  /\ UNCHANGED <<drivers, history, stamps, successes, for_update, now>>
  /\ IF me.ld # NoDriver
     THEN /\ procs' = [procs EXCEPT ![p] = [me EXCEPT !.pc = "udr_read", !.drv = me.ld]]
          /\ ret' = NoRet
          /\ UNCHANGED conv
     ELSE /\ ret' = Returned("add_ride_rating", TRUE)
          /\ Resume(p, me, "add_ride_rating", ret'.val)

\* Ratings still to be recorded leave the counts within the bound
RatingRoom ==
  \A d \in Users :
    drivers[d].total_rides
      + Cardinality({q \in Procs :
                       procs[q].pc \in {"arr_read", "arr_commit", "udr_read", "udr_commit"}})
      < MaxTotalRides

CallAddRideRating(p) ==
  \E r \in RideIds, stars \in Stars :
    /\ procs[p].pc = "idle"
    /\ RatingRoom
    /\ ArrBegin(p, [Frame("add_ride_rating", "arr_read", 0, r, 0, 0, "none")
                      EXCEPT !.stars = stars])

CallUpdateDriverRating(p) ==
  \E d \in Users, stars \in Stars :
    /\ procs[p].pc = "idle"
    /\ RatingRoom
    /\ UdrBegin(p, [Frame("update_driver_rating", "udr_read", 0, 0, d, 0, "none")
                      EXCEPT !.stars = stars])

\* The rides the rating operations are called on: one or two rides of rider 1,
\* each in a status and with the driver_id and the history the handlers leave
\* a ride with; the drivers are registered and not rated yet
RatedRide(st, d) ==
  [Ride(1) EXCEPT !.status = st, !.driver_id = d,
                  !.distance = IF d # NoDriver THEN 0 ELSE @,
                  !.completed_at = st \in TerminalStatuses]

RatedRides ==
  {RatedRide(REQUESTED, NoDriver), RatedRide(ASSIGNED, 2), RatedRide(ONGOING, 2),
   RatedRide(CANCELLED, NoDriver), RatedRide(CANCELLED, 2)}
    \cup {RatedRide(COMPLETED, d) : d \in RatedDrivers}

HistoryOf(row) ==
  CASE row.status = REQUESTED -> <<REQUESTED>>
    [] row.status = ASSIGNED -> <<REQUESTED, ASSIGNED>>
    [] row.status = ONGOING -> <<REQUESTED, ASSIGNED, ONGOING>>
    [] row.status = COMPLETED -> <<REQUESTED, ASSIGNED, ONGOING, COMPLETED>>
    [] row.status = CANCELLED /\ row.driver_id = NoDriver -> <<REQUESTED, CANCELLED>>
    [] OTHER -> <<REQUESTED, ASSIGNED, CANCELLED>>

InitRating ==
  /\ drivers = [u \in Users |-> IF u \in RatedDrivers THEN Driver(0) ELSE AbsentDriver]
  /\ rides \in UNION {[1..n -> RatedRides] : n \in 1..MaxRides}
  /\ history = [r \in DOMAIN rides |-> HistoryOf(rides[r])]
  /\ stamps = [r \in DOMAIN rides |-> [i \in DOMAIN history[r] |-> 0]]
  /\ now = 0
  /\ successes = [r \in DOMAIN rides |-> IF rides[r].driver_id # NoDriver THEN 1 ELSE 0]
  /\ conv = [u \in Users |-> "END"]
  /\ procs = [p \in Sequential |-> Idle]
  /\ for_update = FALSE
  /\ ret = NoRet

RatingNext ==
  \/ \E p \in Procs : CallAddRideRating(p)
  \/ \E p \in Procs : ArrCommit(p)
  \/ \E p \in Procs : CallUpdateDriverRating(p)
  \/ \E p \in Procs : UdrRead(p)
  \/ \E p \in Procs : UdrCommit(p)

SpecRating == InitRating /\ [][RatingNext]_vars

\* ------------------------------------------------------- the matching alone
\* find_nearest_driver called by handle_location for a new ride, on every
\* table of drivers: each user absent, or registered at a location, available
\* or not
MatchDrivers ==
  {AbsentDriver} \cup
  {[Driver(loc) EXCEPT !.available = v] : loc \in MatchLocs, v \in BOOLEAN}

InitMatch ==
  /\ drivers \in [Users -> MatchDrivers]
  /\ rides = <<Ride(1)>>
  /\ history = <<<<REQUESTED>>>>
  /\ stamps = <<<<0>>>>
  /\ now = 0
  /\ successes = <<0>>
  /\ conv = [u \in Users |-> IF u = 1 THEN "WAITING_LOCATION" ELSE "END"]
  /\ procs \in [Sequential ->
                  {[Frame("handle_location", "find", 1, 1, 0, 0, "none") EXCEPT !.pickup = pickup] :
                     pickup \in MatchPickups}]
  /\ for_update = FALSE
  /\ ret = NoRet

MatchNext == \E p \in Procs : LocFind(p)

SpecMatch == InitMatch /\ [][MatchNext]_vars

\* --------------------------------------------- the matching on a given list
\* find_nearest_driver after get_available_drivers has returned: the frame
\* holds the list of drivers, in the order the store returned them
ListFind(p) ==
  LET me == procs[p] IN
  /\ me.pc = "listed"
  /\ Found(p, me, me.list)
  /\ ret' = NoRet
  /\ UNCHANGED <<db, conv, successes, for_update, now>>

InitMatchList ==
  /\ drivers \in [Users -> MatchDrivers]
  /\ rides = <<Ride(1)>>
  /\ history = <<<<REQUESTED>>>>
  /\ stamps = <<<<0>>>>
  /\ now = 0
  /\ successes = <<0>>
  /\ conv = [u \in Users |-> IF u = 1 THEN "WAITING_LOCATION" ELSE "END"]
  /\ procs \in [Sequential ->
                  {[Frame("handle_location", "listed", 1, 1, 0, 0, "none")
                      EXCEPT !.pickup = pickup, !.list = list] :
                     pickup \in MatchPickups, list \in get_available_drivers}]
  /\ for_update = FALSE
  /\ ret = NoRet

MatchListNext == \E p \in Procs : ListFind(p)

SpecMatchList == InitMatchList /\ [][MatchListNext]_vars

\* ------------------------------------------------ two requests, one driver
\* Two riders have sent their locations: handle_location has created a ride for
\* each and is about to look for a driver.  Drivers 2 and 3 are registered at
\* the pickup, each available or not.
InitContend ==
  /\ drivers \in [Users -> {AbsentDriver} \cup
                            {[Driver(0) EXCEPT !.available = v] : v \in BOOLEAN}]
  /\ \A u \in Users : drivers[u].exists <=> u \in DriverIds
  /\ rides = [r \in 1..2 |-> Ride(r)]
  /\ history = [r \in 1..2 |-> <<REQUESTED>>]
  /\ stamps = [r \in 1..2 |-> <<0>>]
  /\ now = 0
  /\ successes = [r \in 1..2 |-> 0]
  /\ conv = [u \in Users |-> IF u \in 1..2 THEN "WAITING_LOCATION" ELSE "END"]
  /\ procs = [p \in Concurrent |-> Frame("handle_location", "find", p, p, 0, 0, "none")]
  /\ for_update \in BOOLEAN
  /\ ret = NoRet

ContendNext ==
  \/ \E p \in Procs : LocFind(p)
  \/ \E p \in Procs : AssignLock(p)
  \/ \E p \in Procs : AssignRide(p)
  \/ \E p \in Procs : AssignCommit(p)
  \/ \E p \in Procs : UrsRead(p)
  \/ \E p \in Procs : UrsCommit(p)

SpecContend == InitContend /\ [][ContendNext]_vars

\* ------------------------------------------------------ the driver registry
\* create_driver, set_driver_availability and update_driver_rating called one
\* at a time, from the state in which driver 2 is registered and has been
\* assigned ride 1, and driver 3 is not registered
InitDrivers ==
  /\ drivers = [u \in Users |-> IF u = 2 THEN Driver(0) ELSE AbsentDriver]
  /\ rides = <<RatedRide(ASSIGNED, 2)>>
  /\ history = <<HistoryOf(rides[1])>>
  /\ stamps = <<<<0, 0>>>>
  /\ now = 0
  /\ successes = <<1>>
  /\ conv = [u \in Users |-> "END"]
  /\ procs = [p \in Sequential |-> Idle]
  /\ for_update = FALSE
  /\ ret = NoRet

CallCreateDriverAt == \E u \in DriverIds, loc \in RegistryLocs : CreateDriverCall(u, loc)

DriversNext ==
  \/ CallCreateDriverAt
  \/ CallSetAvailability
  \/ \E p \in Procs : CallUpdateDriverRating(p)
  \/ \E p \in Procs : UdrCommit(p)

SpecDrivers == InitDrivers /\ [][DriversNext]_vars

\* ------------------------------------------------- the rider rates a ride
\* rate_ride_callback, up to add_ride_rating: the ride is the user's own and
\* was read COMPLETED.  The stars come from the callback data.
rate_ride_callback(p, u, r, stars) ==
  /\ procs[p].pc = "idle"
  /\ r \in ExistingRides
  /\ rides[r].rider_id = u
  /\ rides[r].status = COMPLETED
  /\ RatingRoom
  /\ procs' = [procs EXCEPT ![p] =
                 [Frame("rate_ride_callback", "arr_read", u, r, 0, 0, "none")
                    EXCEPT !.stars = stars]]
  /\ ret' = NoRet
  /\ UNCHANGED <<db, conv, successes, for_update, now>>

\* add_ride_rating awaited by rate_ride_callback
ArrRead(p) == procs[p].pc = "arr_read" /\ ArrBegin(p, procs[p])

\* The rider's rating callbacks alone, on the rides of InitRating
RateNext ==
  \/ \E p \in Procs, u \in Users, r \in RideIds, stars \in Stars :
       rate_ride_callback(p, u, r, stars)
  \/ \E p \in Procs : ArrRead(p)
  \/ \E p \in Procs : ArrCommit(p)
  \/ \E p \in Procs : UdrRead(p)
  \/ \E p \in Procs : UdrCommit(p)

SpecRate == InitRating /\ [][RateNext]_vars

\* The rider's rating and cancel callbacks
RateCancelNext ==
  \/ RateNext
  \/ \E p \in Procs, u \in Users, r \in RideIds :
       cancel_ride_callback_within(p, u, r, RatedMaxHistory)
  \/ \E p \in Procs : UrsRead(p)
  \/ \E p \in Procs : UrsCommit(p)

SpecRateCancel == InitRating /\ [][RateCancelNext]_vars

\* Concurrent callers of update_driver_rating for one driver, registered and
\* not rated yet, each with its own stars
InitRatingRace ==
  /\ drivers = [u \in Users |-> IF u = 2 THEN Driver(0) ELSE AbsentDriver]
  /\ rides = <<>>
  /\ history = <<>>
  /\ stamps = <<>>
  /\ now = 0
  /\ successes = <<>>
  /\ conv = [u \in Users |-> "END"]
  /\ procs \in [Racers ->
                  {[Frame("update_driver_rating", "udr_read", 0, 0, 2, 0, "none")
                      EXCEPT !.stars = stars] : stars \in Stars}]
  /\ for_update = FALSE
  /\ ret = NoRet

RatingRaceNext ==
  \/ \E p \in Procs : UdrRead(p)
  \/ \E p \in Procs : UdrCommit(p)

SpecRatingRace == InitRatingRace /\ [][RatingRaceNext]_vars

\* ------------------------------------------------------------------ claims
\* C1: for every ride, whatever the interleaving of assign_driver_to_ride calls
\* with each other and with the other store operations, at most one
\* assign_driver_to_ride call for the ride returns True.
C1_AtMostOneSuccessfulAssign ==
  \A r \in ExistingRides : successes[r] <= 1

\* C2: in every state the front-end operations reach, no driver is the
\* driver_id of two rides that are ASSIGNED or ONGOING at the same time.
C2_NoDriverOnTwoActiveRides ==
  \A r1, r2 \in ExistingRides :
    /\ r1 # r2
    /\ rides[r1].status \in {ASSIGNED, ONGOING}
    /\ rides[r2].status \in {ASSIGNED, ONGOING}
    => \/ rides[r1].driver_id # rides[r2].driver_id
       \/ rides[r1].driver_id = NoDriver

\* C3: in every reachable state, the driver_id of a ride that is ASSIGNED or
\* ONGOING names a driver whose available flag is false.
C3_BusyDriverUnavailable ==
  \A r \in ExistingRides :
    rides[r].status \in {ASSIGNED, ONGOING} /\ rides[r].driver_id # NoDriver
    => ~drivers[rides[r].driver_id].available

\* C4: when N concurrent assign_driver_to_ride calls for N distinct REQUESTED
\* rides name the same available driver and all have returned, exactly one
\* returned True and the others False, the driver is not available, and
\* exactly one ride references the driver with status ASSIGNED.
C4_OneWinnerPerDriver ==
  \A d \in DriverIds :
    LET callers == {p \in Procs : procs[p].h = "race"} IN
    /\ Cardinality(callers) >= 2
    /\ \A p \in callers : procs[p].pc = "done" /\ procs[p].drv = d
    /\ \A p, q \in callers : p # q => procs[p].ride # procs[q].ride
    => /\ Cardinality({p \in callers : procs[p].res = "True"}) = 1
       /\ Cardinality({p \in callers : procs[p].res = "False"}) = Cardinality(callers) - 1
       /\ ~drivers[d].available
       /\ Cardinality({r \in ExistingRides :
                         rides[r].driver_id = d /\ rides[r].status = ASSIGNED}) = 1

\* C5: when two concurrent assign_driver_to_ride calls for the same REQUESTED
\* ride name two different available drivers and both have returned, exactly
\* one returned True, the ride carries the driver of that call, and the driver
\* of the other call is still available.
C5_OneWinnerPerRide ==
  \A p, q \in Procs :
    /\ p # q
    /\ \A o \in Procs \ {p, q} : procs[o].h # "race"
    /\ procs[p].h = "race" /\ procs[p].pc = "done"
    /\ procs[q].h = "race" /\ procs[q].pc = "done"
    /\ procs[p].ride = procs[q].ride
    /\ procs[p].drv # procs[q].drv
    => \E w, l \in {p, q} :
         /\ w # l
         /\ procs[w].res = "True" /\ procs[l].res = "False"
         /\ rides[procs[w].ride].driver_id = procs[w].drv
         /\ drivers[procs[l].drv].available

\* C6: assign_driver_to_ride returns False, and changes neither the rides, the
\* drivers nor the history, whenever its SELECT of the driver finds no
\* available driver with that id or its SELECT of the ride finds no ride in
\* status REQUESTED; it goes past a SELECT only when the row it looked for is
\* there.
C6_FailedAssignChangesNothing ==
  [][/\ ret'.op = "assign_driver_to_ride" /\ ~ret'.val => UNCHANGED db
     /\ \A p \in Procs :
          /\ procs[p].pc # "assign_ride" /\ procs'[p].pc = "assign_ride"
             => /\ drivers[procs'[p].drv].exists
                /\ drivers[procs'[p].drv].available
          /\ procs[p].pc = "assign_ride" /\ procs'[p].pc = "assign_commit"
             => /\ procs[p].ride \in ExistingRides
                /\ rides[procs[p].ride].status = REQUESTED
          /\ procs[p].pc = "assign_ride" /\ procs'[p].pc = "idle"
             => ret' = Returned("assign_driver_to_ride", FALSE)
          /\ procs'[p].pc = "assign_commit"
             => procs[p].pc \in {"assign_ride", "assign_commit"}
    ]_vars

\* C6 witness: a call returned False on a ride that is there but no longer
\* REQUESTED, while every driver was available.
C6_Witness ==
  /\ ret = Returned("assign_driver_to_ride", FALSE)
  /\ \A d \in DriverIds : drivers[d].exists /\ drivers[d].available
  /\ Len(rides) = MaxRides
  /\ \A r \in ExistingRides : rides[r].status # REQUESTED

\* C7: the step in which assign_driver_to_ride(ride, driver, d) returns True
\* sets driver_id, distance and status ASSIGNED on the ride, clears the
\* driver's available flag and appends one ASSIGNED history entry for the
\* ride, all in that one step, and changes nothing else in the store.
C7_SuccessfulAssignCommitsTogether ==
  [][ret'.op = "assign_driver_to_ride" /\ ret'.val
     => \E p \in Procs :
          /\ procs[p].pc = "assign_commit"
          /\ procs'[p].pc = "idle"
          /\ rides' = [rides EXCEPT ![procs[p].ride] =
                         [rider_id |-> @.rider_id, driver_id |-> procs[p].drv,
                          status |-> ASSIGNED, distance |-> procs[p].dist,
                          rating |-> @.rating, completed_at |-> @.completed_at]]
          /\ drivers' = [drivers EXCEPT ![procs[p].drv] =
                           [exists |-> @.exists, available |-> FALSE, loc |-> @.loc,
                            rating |-> @.rating, total_rides |-> @.total_rides]]
          /\ history' = [history EXCEPT ![procs[p].ride] = @ \o <<ASSIGNED>>]
    ]_vars

\* C7 witness: a call has just returned True and the ride, the driver and the
\* history show the assignment.
C7_Witness ==
  /\ ret = Returned("assign_driver_to_ride", TRUE)
  /\ \E r \in ExistingRides :
       /\ rides[r].status = ASSIGNED
       /\ rides[r].driver_id \in DriverIds
       /\ rides[r].distance = 1000
       /\ ~drivers[rides[r].driver_id].available
       /\ history[r] = <<REQUESTED, ASSIGNED>>

\* C8: every change of a ride's status made by the front-end operations is one
\* of REQUESTED to ASSIGNED, REQUESTED to CANCELLED, ASSIGNED to ONGOING,
\* ASSIGNED to CANCELLED, ONGOING to COMPLETED.
C8_StatusFollowsStateMachine ==
  [][\A r \in ExistingRides :
       rides'[r].status # rides[r].status
       => <<rides[r].status, rides'[r].status>> \in
            {<<REQUESTED, ASSIGNED>>, <<REQUESTED, CANCELLED>>, <<ASSIGNED, ONGOING>>,
             <<ASSIGNED, CANCELLED>>, <<ONGOING, COMPLETED>>}
    ]_vars

\* C9: once a ride is COMPLETED or CANCELLED, no operation changes its status
\* or appends a history entry for it.
C9_TerminalRideIsFrozen ==
  [][\A r \in ExistingRides :
       rides[r].status \in {COMPLETED, CANCELLED}
       => rides'[r].status = rides[r].status /\ history'[r] = history[r]
    ]_vars

\* C10: a ride that is ONGOING never becomes CANCELLED, also when the driver's
\* accept runs between the status check of a cancel handler and its
\* cancel_ride call.
C10_OngoingNeverCancelled ==
  [][\A r \in ExistingRides :
       rides[r].status = ONGOING => rides'[r].status # CANCELLED
    ]_vars

\* C11: an update_ride_status call on a ride that is already COMPLETED or
\* CANCELLED does not make the ride's driver available again: the driver of a
\* ride is freed once.
C11_FinishedRideFreesNoDriver ==
  [][\A r \in ExistingRides :
       /\ rides[r].status \in {COMPLETED, CANCELLED}
       /\ rides[r].driver_id # NoDriver
       /\ history'[r] # history[r]
       => drivers'[rides[r].driver_id].available = drivers[rides[r].driver_id].available
    ]_vars

\* C12: the step in which update_ride_status(ride, s) returns True sets
\* completed_at and makes the driver the ride was loaded with available when s
\* is COMPLETED or CANCELLED, and changes no other driver; for any other s it
\* leaves completed_at and every driver as they were.
C12_UpdateRideStatusFrame ==
  [][ret' = Returned("update_ride_status", TRUE)
     => \E p \in Procs :
          /\ procs[p].pc = "urs_commit"
          /\ procs'[p].pc = "idle"
          /\ IF procs[p].st \in {COMPLETED, CANCELLED}
             THEN /\ rides'[procs[p].ride].completed_at
                  /\ procs[p].ld # NoDriver => drivers'[procs[p].ld].available
                  /\ \A d \in Users \ {procs[p].ld} : drivers'[d] = drivers[d]
             ELSE /\ rides'[procs[p].ride].completed_at = rides[procs[p].ride].completed_at
                  /\ drivers' = drivers
    ]_vars

\* C12 witness: update_ride_status has just returned True on a COMPLETED ride
\* with a driver, and the driver is available.
C12_Witness ==
  /\ ret = Returned("update_ride_status", TRUE)
  /\ \E r \in ExistingRides :
       /\ rides[r].status = COMPLETED
       /\ rides[r].completed_at
       /\ rides[r].driver_id # NoDriver
       /\ drivers[rides[r].driver_id].available
       /\ history[r] = <<REQUESTED, ASSIGNED, COMPLETED>>

\* C13: the step in which create_ride returns adds one ride with status
\* REQUESTED and no driver together with its history, which is the single entry
\* REQUESTED, and leaves the other rides and histories as they were.
C13_CreateRideCommitsRideAndEntry ==
  [][ret'.op = "create_ride"
     => /\ Len(rides') = Len(rides) + 1
        /\ Len(history') = Len(rides')
        /\ rides'[Len(rides')].status = REQUESTED
        /\ rides'[Len(rides')].driver_id = NoDriver
        /\ history'[Len(rides')] = <<REQUESTED>>
        /\ \A r \in ExistingRides : rides'[r] = rides[r] /\ history'[r] = history[r]
    ]_vars

\* C13 witness: create_ride has just returned the second ride.
C13_Witness ==
  /\ ret.op = "create_ride"
  /\ Len(rides) = 2
  /\ rides[2].status = REQUESTED
  /\ rides[2].driver_id = NoDriver
  /\ history[2] = <<REQUESTED>>

\* C14: create_ride, assign_driver_to_ride returning True and
\* update_ride_status returning True each append exactly one history entry,
\* with the status they write, for their ride and for no other; a call of
\* assign_driver_to_ride or update_ride_status that returns False appends
\* nothing and changes no ride and no driver; nothing else changes a history.
C14_OneEntryPerStatusWrite ==
  [][/\ ret'.op = "create_ride" => history' = Append(history, <<REQUESTED>>)
     /\ ret' = Returned("assign_driver_to_ride", TRUE)
        => \E p \in Procs :
             /\ procs[p].pc = "assign_commit" /\ procs'[p].pc = "idle"
             /\ history' = [history EXCEPT ![procs[p].ride] = @ \o <<ASSIGNED>>]
     /\ ret' = Returned("update_ride_status", TRUE)
        => \E p \in Procs :
             /\ procs[p].pc = "urs_commit" /\ procs'[p].pc = "idle"
             /\ history' = [history EXCEPT ![procs[p].ride] = @ \o <<procs[p].st>>]
     /\ ret'.op \in {"assign_driver_to_ride", "update_ride_status"} /\ ~ret'.val
        => history' = history /\ rides' = rides /\ drivers' = drivers
     /\ history' # history
        => \/ ret'.op = "create_ride"
           \/ ret' = Returned("assign_driver_to_ride", TRUE)
           \/ ret' = Returned("update_ride_status", TRUE)
    ]_vars

\* C14 witness: update_ride_status has just returned False for a ride that is
\* not there, after a ride went through create_ride, assign_driver_to_ride and
\* update_ride_status.
C14_Witness ==
  /\ ret = Returned("update_ride_status", FALSE)
  /\ Len(rides) = 1
  /\ history[1] = <<REQUESTED, ASSIGNED, ONGOING>>

\* C15: get_ride_history returns the entries of a ride in the order in which
\* their transitions were committed, none moved and none merged, also when two
\* transitions got the same timestamp.
C15_HistoryInCommitOrder ==
  ret.op = "get_ride_history" =>
    ret.val.entries =
      IF ret.val.ride \in ExistingRides THEN history[ret.val.ride] ELSE <<>>

\* C16: in every reachable state a REQUESTED ride has no driver_id, an
\* ASSIGNED, ONGOING or COMPLETED ride has one, and a CANCELLED ride has one
\* exactly when an ASSIGNED entry precedes a CANCELLED entry in its history.
C16_DriverIdFollowsStatus ==
  \A r \in ExistingRides :
    /\ rides[r].status = REQUESTED => rides[r].driver_id = NoDriver
    /\ rides[r].status \in {ASSIGNED, ONGOING, COMPLETED} => rides[r].driver_id # NoDriver
    /\ rides[r].status = CANCELLED =>
         (rides[r].driver_id # NoDriver <=>
            \E i, j \in DOMAIN history[r] :
              i < j /\ history[r][i] = ASSIGNED /\ history[r][j] = CANCELLED)

\* A ride cancelled after its assignment next to a ride cancelled without one
C16_Witness ==
  \E r, q \in ExistingRides :
    /\ rides[r].status = CANCELLED /\ rides[r].driver_id # NoDriver
    /\ history[r] = <<REQUESTED, ASSIGNED, CANCELLED>>
    /\ rides[q].status = CANCELLED /\ rides[q].driver_id = NoDriver
    /\ history[q] = <<REQUESTED, CANCELLED>>

\* C17: once a ride has a driver_id, no step changes it to another driver or
\* back to null, whatever the interleaving of the operations.
C17_DriverIdNeverChanges ==
  [][\A r \in ExistingRides :
       rides[r].driver_id # NoDriver => rides'[r].driver_id = rides[r].driver_id]_vars

\* C18: add_ride_rating returns False, leaving every ride and every driver as
\* it was, unless the ride exists and is COMPLETED; it goes on to its writes
\* only for such a ride, and when it returns True the ride's rating is the
\* stars given and, if the ride has a driver, this call's update_driver_rating
\* has counted one more ride for that driver and set the driver's rating to
\* the average with the stars.
C18_AddRideRating ==
  [][
       /\ ret' = Returned("add_ride_rating", FALSE) =>
          /\ rides' = rides /\ drivers' = drivers
          /\ \E p \in Procs :
               /\ procs[p].pc = "idle" /\ procs'[p].pc = "idle"
       /\ \A p \in Procs :
            procs'[p].pc = "arr_commit" =>
              /\ procs'[p].ride \in ExistingRides
              /\ rides[procs'[p].ride].status = COMPLETED
       /\ ret' = Returned("add_ride_rating", TRUE) =>
            \E p \in Procs :
              LET me == procs[p]
                  r == me.ride
                  d == rides[r].driver_id
              IN  /\ me.h = "add_ride_rating" /\ procs'[p].pc = "idle"
                  /\ r \in ExistingRides
                  /\ rides'[r].status = COMPLETED
                  /\ rides'[r].rating = me.stars
                  /\ \A q \in ExistingRides \ {r} : rides'[q] = rides[q]
                  /\ d # NoDriver =>
                       LET num == drivers[d].rating * drivers[d].total_rides + 100 * me.stars
                           den == drivers[d].total_rides + 1
                           err == drivers'[d].rating * den - num
                       IN  /\ me.pc = "udr_commit"
                           /\ drivers'[d].total_rides = den
                           /\ 2 * err <= den /\ 2 * (0 - err) <= den
                           /\ \A e \in Users \ {d} : drivers'[e] = drivers[e]
                  /\ d = NoDriver => drivers' = drivers
    ]_vars

\* add_ride_rating(1, 4) has returned True on a COMPLETED ride of driver 2
C18_Witness ==
  /\ ret = Returned("add_ride_rating", TRUE)
  /\ rides[1].status = COMPLETED /\ rides[1].driver_id = 2 /\ rides[1].rating = 4
  /\ drivers[2].rating = 400 /\ drivers[2].total_rides = 1

\* C19: update_driver_rating(d, r) on a driver with rating a and total_rides n
\* leaves the driver with total_rides n + 1 and with the rating that is
\* (a * n + r) / (n + 1) rounded to 2 decimals, and changes no other driver;
\* on an absent driver it changes nothing.  From (5.0, 0) a rating of 4 gives
\* (4.0, 1), and from (4.0, 1) a rating of 2 gives (3.0, 2).
C19_UpdateDriverRating ==
  [][
     /\ \A p \in Procs :
          procs[p].pc = "udr_commit" /\ procs'[p].pc # "udr_commit" =>
            LET d == procs[p].drv
                r == procs[p].stars
                a == drivers[d].rating
                n == drivers[d].total_rides
                err == drivers'[d].rating * (n + 1) - (a * n + 100 * r)
            IN  /\ drivers'[d].total_rides = n + 1
                /\ 2 * err <= n + 1 /\ 2 * (0 - err) <= n + 1
                /\ a = 500 /\ n = 0 /\ r = 4 => drivers'[d].rating = 400
                /\ a = 400 /\ n = 1 /\ r = 2 => drivers'[d].rating = 300
                /\ drivers'[d].exists /\ drivers'[d].available = drivers[d].available
                /\ \A e \in Users \ {d} : drivers'[e] = drivers[e]
     /\ (\A p \in Procs : procs[p].pc # "udr_commit") => drivers' = drivers
     /\ ret'.op = "update_driver_rating" =>
          \E p \in Procs : procs[p].pc \in {"idle", "udr_commit"} /\ procs'[p].pc = "idle"
    ]_vars

\* Driver 2 rated twice, to an average of 3.0, and driver 3 three times, to an
\* average rounded to 4.33, the last one by update_driver_rating called directly
C19_Witness ==
  /\ ret.op = "update_driver_rating"
  /\ drivers[2].rating = 300 /\ drivers[2].total_rides = 2
  /\ drivers[3].rating = 433 /\ drivers[3].total_rides = 3

\* C20: find_nearest_driver returns nothing when no available driver is within
\* MAX_SEARCH_DISTANCE_KM of the pickup; otherwise it returns a driver that is
\* available in the table it read and within the radius, at the least distance
\* of all such drivers, together with that distance.
C20_NearestAvailableDriver ==
  \A p \in Procs :
    LET me == procs[p]
        Distance(d) == IF drivers[d].loc >= me.pickup THEN drivers[d].loc - me.pickup
                       ELSE me.pickup - drivers[d].loc
        Candidates == {d \in Users : /\ drivers[d].exists /\ drivers[d].available
                                     /\ Distance(d) <= MAX_SEARCH_DISTANCE_KM}
    IN  /\ me.pc = "assign_lock" =>
             /\ me.drv \in Candidates
             /\ me.dist = Distance(me.drv)
             /\ \A d \in Candidates : me.dist <= Distance(d)
        /\ me.pc \in {"urs_read", "idle"} => Candidates = {}
        /\ me.pc \in {"find", "assign_lock", "urs_read", "idle"}

\* Driver 2, 4 km away, is returned: driver 1 at the pickup is not available,
\* driver 3 is available 10 km away
C20_Witness ==
  \E p \in Procs :
    /\ procs[p].pc = "assign_lock" /\ procs[p].pickup = 0
    /\ procs[p].drv = 2 /\ procs[p].dist = 400
    /\ drivers[1].exists /\ ~drivers[1].available /\ drivers[1].loc = 0
    /\ drivers[2].available /\ drivers[2].loc = 400
    /\ drivers[3].available /\ drivers[3].loc = 1000

\* C21: when several available drivers within the radius are at the same least
\* distance from the pickup, find_nearest_driver returns the one of them that
\* comes first in the list get_available_drivers returned.
C21_TieGoesToFirstInList ==
  \A p \in Procs :
    LET me == procs[p]
        Distance(d) == IF drivers[d].loc >= me.pickup THEN drivers[d].loc - me.pickup
                       ELSE me.pickup - drivers[d].loc
        Least(i) == /\ Distance(me.list[i]) <= MAX_SEARCH_DISTANCE_KM
                    /\ \A j \in DOMAIN me.list : Distance(me.list[i]) <= Distance(me.list[j])
    IN  me.pc = "assign_lock" =>
          \E i \in DOMAIN me.list :
            /\ me.list[i] = me.drv
            /\ Least(i)
            /\ \A j \in 1..(i - 1) : ~Least(j)

\* Drivers 1 and 3 are both 5 km from the pickup, driver 2 further away is
\* listed between them; driver 3, listed first, is returned
C21_Witness ==
  \E p \in Procs :
    /\ procs[p].pc = "assign_lock" /\ procs[p].pickup = 500
    /\ procs[p].list = <<3, 2, 1>>
    /\ drivers[1].loc = 0 /\ drivers[3].loc = 1000 /\ drivers[2].loc = 1001
    /\ procs[p].drv = 3 /\ procs[p].dist = 500

\* C22: with the radius of 10.0 km an available driver at exactly 10.00 km is
\* eligible, so find_nearest_driver returns a driver whenever there is one, and
\* a driver at 10.01 km is never returned and does not keep the result from
\* being empty.
C22_RadiusIsInclusive ==
  \A p \in Procs :
    LET me == procs[p]
        Distance(d) == IF drivers[d].loc >= me.pickup THEN drivers[d].loc - me.pickup
                       ELSE me.pickup - drivers[d].loc
        AvailableAt(S) == {d \in Users : /\ drivers[d].exists /\ drivers[d].available
                                         /\ Distance(d) \in S}
    IN  /\ me.pc = "assign_lock" => me.dist # 1001 /\ Distance(me.drv) # 1001
        /\ me.pc # "find" /\ AvailableAt({1000}) # {} => me.pc = "assign_lock"
        /\ me.pc # "find" /\ AvailableAt({1001}) # {} /\ AvailableAt(0..1000) = {} =>
             me.pc \in {"urs_read", "idle"}

\* The driver at exactly 10.00 km is returned, the available driver at 10.01 km
\* is not
C22_Witness ==
  \E p \in Procs :
    /\ procs[p].pc = "assign_lock" /\ procs[p].pickup = 0
    /\ procs[p].drv = 2 /\ procs[p].dist = 1000
    /\ ~drivers[1].exists
    /\ drivers[2].available /\ drivers[2].loc = 1000
    /\ drivers[3].available /\ drivers[3].loc = 1001

\* C23: the find_nearest_driver step changes no driver, no ride and no history
\* entry; and when the driver it returned is no longer available at the
\* caller's assign_driver_to_ride, that call returns False, changes nothing,
\* and the caller's ride stays without a driver.
C23_FindReservesNothing ==
  [][\A p \in Procs :
       /\ procs[p].pc = "find" /\ procs'[p].pc # "find" =>
            /\ drivers' = drivers /\ rides' = rides /\ history' = history
       /\ /\ procs[p].pc = "assign_lock" /\ procs'[p] # procs[p]
          /\ ~drivers[procs[p].drv].available
          => /\ ret' = Returned("assign_driver_to_ride", FALSE)
             /\ procs'[p].pc = "idle"
             /\ drivers' = drivers /\ rides' = rides /\ history' = history
             /\ rides'[procs[p].ride].driver_id = NoDriver
             /\ rides'[procs[p].ride].status = REQUESTED
    ]_vars

\* Only driver 2 was available; both requests found driver 2, ride 1 got the
\* driver and the assignment for ride 2 returned False
C23_Witness ==
  /\ ret = Returned("assign_driver_to_ride", FALSE)
  /\ rides[1].status = ASSIGNED /\ rides[1].driver_id = 2
  /\ rides[2].status = REQUESTED /\ rides[2].driver_id = NoDriver
  /\ history[2] = <<REQUESTED>>
  /\ ~drivers[2].available /\ ~drivers[3].available
  /\ procs[2].pc = "idle"

\* C24: when find_nearest_driver returned nothing for a requested ride, the
\* request ends with the ride CANCELLED, its history REQUESTED then CANCELLED,
\* no driver_id set and no driver's availability changed.
C24_NoDriverCancelsRide ==
  [][\A p \in Procs :
       /\ procs[p].h = "handle_location"
       /\ procs[p].pc \in {"find", "urs_read", "urs_commit"}
       /\ procs'[p].pc = "idle"
       => /\ rides'[procs[p].ride].status = CANCELLED
          /\ history'[procs[p].ride] = <<REQUESTED, CANCELLED>>
          /\ rides'[procs[p].ride].driver_id = NoDriver
          /\ \A d \in Users : drivers'[d].available = drivers[d].available
    ]_vars

\* C25: when the rider cancels a ride that is ASSIGNED, the cancellation
\* leaves the ride CANCELLED and the driver that was assigned to it available.
C25_CancelAssignedFreesDriver ==
  [][\A p \in Procs :
       /\ procs[p].h \in {"cancel_ride_button", "cancel_ride_callback"}
       /\ procs[p].pc = "urs_commit"
       /\ procs[p].ls = ASSIGNED
       /\ procs'[p].pc = "idle"
       => /\ rides'[procs[p].ride].status = CANCELLED
          /\ rides'[procs[p].ride].driver_id # NoDriver
          /\ rides'[procs[p].ride].driver_id = rides[procs[p].ride].driver_id
          /\ drivers'[rides[procs[p].ride].driver_id].available
    ]_vars

\* Rider 1 has cancelled ride 1, which was assigned to driver 2
C25_Witness ==
  /\ ret = Returned("update_ride_status", TRUE)
  /\ Len(rides) = 1
  /\ rides[1].rider_id = 1 /\ rides[1].status = CANCELLED /\ rides[1].driver_id = 2
  /\ history[1] = <<REQUESTED, ASSIGNED, CANCELLED>>
  /\ drivers[2].available

\* C26: create_driver(u, ...) on an absent driver creates the driver with
\* available = false; on an existing driver it changes the profile (here the
\* location) and leaves available, rating and total_rides as they were; in
\* both cases no other driver and no ride changes.
C26_CreateDriverFrame ==
  [][\A u \in DriverIds, loc \in RegistryLocs :
       CreateDriverCall(u, loc) =>
         /\ rides' = rides /\ history' = history
         /\ \A e \in Users \ {u} : drivers'[e] = drivers[e]
         /\ drivers'[u].exists /\ drivers'[u].loc = loc
         /\ IF drivers[u].exists
            THEN /\ drivers'[u].available = drivers[u].available
                 /\ drivers'[u].rating = drivers[u].rating
                 /\ drivers'[u].total_rides = drivers[u].total_rides
            ELSE ~drivers'[u].available
    ]_vars

\* create_driver has moved driver 2, who is available and has been rated
C26_Witness ==
  /\ ret.op = "create_driver"
  /\ ~drivers[3].exists
  /\ drivers[2].loc = 400 /\ drivers[2].available
  /\ drivers[2].rating = 400 /\ drivers[2].total_rides = 1

\* C27: set_driver_availability(u, v) returns False and changes nothing when
\* driver u does not exist; otherwise it returns True and sets available to v,
\* whatever rides the driver has, changing no other field, no other driver and
\* no ride.
C27_SetAvailabilityFrame ==
  [][\A u \in DriverIds, v \in BOOLEAN :
       SetAvailabilityCall(u, v) =>
         /\ rides' = rides /\ history' = history
         /\ IF drivers[u].exists
            THEN /\ ret' = Returned("set_driver_availability", TRUE)
                 /\ drivers' = [drivers EXCEPT ![u].available = v]
            ELSE /\ ret' = Returned("set_driver_availability", FALSE)
                 /\ drivers' = drivers
    ]_vars

\* Driver 2 has been set available while ride 1 is assigned to the driver
C27_Witness ==
  /\ ret = Returned("set_driver_availability", TRUE)
  /\ rides[1].status = ASSIGNED /\ rides[1].driver_id = 2
  /\ drivers[2].available /\ drivers[2].loc = 400
  /\ drivers[2].rating = 450 /\ drivers[2].total_rides = 2

\* C28: a send that fails keeps no store operation of a flow from running:
\* every ride created goes on to the search for a driver, a handler that is
\* about to search does not end before the assignment or the cancellation of
\* its ride, and a completion that ends early leaves the driver available as
\* the full flow does.
C28_SendFailureBlocksNothing ==
  [][/\ Len(rides') > Len(rides) =>
          \E p \in Procs : procs'[p].pc = "find" /\ procs'[p].ride = Len(rides')
     /\ \A p \in Procs :
          procs[p].h = "handle_location" /\ procs[p].pc = "find" => procs'[p].pc # "idle"
     /\ \A p \in Procs :
          /\ procs[p].h = "complete_ride_callback" /\ procs[p].pc = "urs_commit"
          /\ procs'[p].pc = "idle"
          => drivers'[procs[p].user].available
    ]_vars

\* C29: only the commit of assign_driver_to_ride changes a driver record and
\* a ride record together; every other operation changes records of at most
\* one of the two tables.
C29_OnlyAssignWritesBothTables ==
  [][drivers' # drivers /\ rides' # rides =>
       \E p \in Procs : procs[p].pc = "assign_commit" /\ procs'[p].pc # "assign_commit"]_vars

\* C30: an operation executed a second time with the same arguments, after its
\* first execution was committed, leaves ride status, driver records and ride
\* history as the first execution left them: an update_ride_status(r, s) that
\* finds ride r in status s with s as its last history entry changes none.
C30_RetryIsIdempotent ==
  [][\A p \in Procs :
       /\ procs[p].pc = "urs_commit" /\ procs'[p].pc = "idle"
       /\ procs[p].ls = procs[p].st
       /\ rides[procs[p].ride].status = procs[p].st
       /\ history[procs[p].ride][Len(history[procs[p].ride])] = procs[p].st
       => /\ history' = history
          /\ drivers' = drivers
          /\ rides'[procs[p].ride].status = rides[procs[p].ride].status
    ]_vars

\* C31: in every reachable state, a ride whose rating is non-null has status
\* COMPLETED and a rating between 1 and 5.
C31_RatedRideIsCompleted ==
  \A r \in ExistingRides :
    rides[r].rating # NoRating =>
      rides[r].status = COMPLETED /\ rides[r].rating \in 1..5


\* C32: the step in which go_available's set_driver_availability(True) commits
\* leaves the driver with no ride in status REQUESTED, ASSIGNED or ONGOING
\* that references them as driver, whatever committed since the handler's
\* active-ride check.
C32_GoAvailableOnlyWithoutActiveRide ==
  [][
     \A p \in Procs :
       /\ procs[p].h = "go_available"
       /\ procs[p].pc = "set_driver_availability"
       /\ procs'[p].pc = "idle"
       /\ drivers'[procs[p].user].available
       => \A r \in DOMAIN rides' :
            ~(rides'[r].driver_id = procs[p].user /\ rides'[r].status \in ActiveStatuses)
  ]_vars


C34_LastEntryIsCurrentStatus ==
  ret.op = "get_ride_history" /\ ret.val.ride \in ExistingRides =>
    /\ ret.val.entries # <<>>
    /\ ret.val.entries[Len(ret.val.entries)] = rides[ret.val.ride].status


\* C35: in every reachable state each user is referenced, as rider or as
\* driver, by at most one ride in status REQUESTED, ASSIGNED or ONGOING.
C35_AtMostOneActiveRidePerUser ==
  \A u \in Users :
    Cardinality({r \in ExistingRides :
                   /\ rides[r].status \in {REQUESTED, ASSIGNED, ONGOING}
                   /\ u \in {rides[r].rider_id, rides[r].driver_id}}) <= 1


\* C36: when handle_location finishes after its assign_driver_to_ride call
\* returned, the ride it created is not REQUESTED: it is ASSIGNED when the
\* call returned True and CANCELLED when it returned False.
C36_FinishedRequestIsNotRequested ==
  [][
     \A p \in Procs :
       /\ procs[p].h = "handle_location"
       /\ procs[p].pc \in {"assign_lock", "assign_ride", "assign_commit"}
       /\ procs'[p].pc = "idle"
       /\ ret'.op = "assign_driver_to_ride"
       => rides'[procs[p].ride].status = IF ret'.val THEN ASSIGNED ELSE CANCELLED
  ]_vars


\* C37: an accept or complete callback goes on to move a ride to ONGOING or
\* COMPLETED only when its user is the driver assigned to the ride, and a
\* cancel callback, the cancel button or a rate callback goes on to cancel or
\* rate a ride only when its user is the ride's rider.
C37_OnlyOwnRides ==
  [][
     \A p \in Procs, u \in Users, r \in RideIds :
       /\ accept_ride_callback(p, u, r) => rides[r].driver_id = u
       /\ complete_ride_callback(p, u, r) => rides[r].driver_id = u
       /\ cancel_ride_callback(p, u, r) => rides[r].rider_id = u
       /\ cancel_ride_button(p, u) => \A a \in ActiveRidesOf(u) : rides[a].rider_id = u
       /\ \A stars \in Stars :
            rate_ride_callback(p, u, r, stars) => rides[r].rider_id = u
  ]_vars


\* C38: when the concurrent update_driver_rating calls for one driver have
\* all returned, the driver's total_rides has grown by the number of calls.
C38_NoRatingUpdateLost ==
  (\A p \in Procs : procs[p].pc = "idle") =>
    drivers[2].total_rides = Cardinality(Racers)


\* C39: in every reachable state a driver's total_rides is at most the number
\* of COMPLETED rides that reference the driver.
C39_OneRatingPerRide ==
  \A d \in Users :
    drivers[d].total_rides
      <= Cardinality({r \in ExistingRides :
                        rides[r].status = COMPLETED /\ rides[r].driver_id = d})


\* C40: in every reachable state a ride's completed_at is non-null exactly
\* when the ride's status is COMPLETED or CANCELLED.
C40_CompletedAtFollowsStatus ==
  \A r \in ExistingRides :
    rides[r].completed_at <=> rides[r].status \in {COMPLETED, CANCELLED}


====
